---- MODULE Spec2Model ----
(***************************************************************************)
(* ClipStitch: the sequential capture pipeline of utils/videoProcessor.ts. *)
(* stitchVideos is an async function; its position is pc.  Each clip has   *)
(* one playVideoToCanvas driver: a promise, a <video> element, an optional *)
(* audio source node and a requestAnimationFrame capture loop.  The host   *)
(* (browser) delivers events; a synchronous block of the program runs to   *)
(* completion before the host delivers the next event.                     *)
(***************************************************************************)
EXTENDS Integers, Sequences, FiniteSets, TLC

\* ---------------------------------------------------------------- bounds
MaxClips == 2
MaxPauses == 1
MaxChunks == 1
MaxDim == 4
MaxRuns == 2

\* ------------------------------------------------------------- constants
NoClip == 0 - 1

Clips == 0 .. (MaxClips - 1)

VARIABLES
    videos,      \* videos.length of the call
    pc,          \* position of stitchVideos
    i,           \* loop variable of stitchVideos
    outcome,     \* settlement of the promise stitchVideos returned
    canvas,      \* document.createElement('canvas') has run
    audioCtx,    \* audioCtx.state, "none" before construction
    mediaRecorder, \* the recorder: state, calls, onstop, the queued stop event
    progress,    \* the onProgress calls so far, in order
    clip,        \* per clip: the driver playVideoToCanvas made for it
    canvasWriter, \* the clip whose drawFrame drew last
    supported,   \* the types MediaRecorder.isTypeSupported accepts
    selectedMimeType, \* selectedMimeType, "" before the negotiation
    chunks,      \* the array chunks: the data ondataavailable pushed
    emitted,     \* every dataavailable event the recorder fired, in order
    blob,        \* the Blob onstop made
    capture,     \* one run of drawFrame: its inputs and what it did
    app          \* the App component: its state, and what it rendered last

mimeVars == <<supported, selectedMimeType>>

dataVars == <<chunks, emitted, blob>>

vars == <<videos, pc, i, outcome, canvas, audioCtx, mediaRecorder,
          progress, clip, canvasWriter, mimeVars, dataVars, capture, app>>

runVars == <<videos, pc, i, outcome, canvas, audioCtx, mediaRecorder,
             progress, clip, canvasWriter, mimeVars, dataVars>>

\* ----------------------------------------------------------------- values
\* An error value as the caller sees it: err.name, err.clipIndex, err.cause
\* (clipIndex and cause are undefined on every error the code creates).
RawError(n) == [name |-> n, clipIndex |-> NoClip, cause |-> "none"]

Pending == [status |-> "pending", error |-> RawError("none")]
Rejected(e) == [status |-> "rejected", error |-> e]
Fulfilled(b) == [status |-> "blob", error |-> RawError("none"), blob |-> b]

NoBlob == [type |-> "", data |-> << >>]

\* lines 52-59: the preference-ordered candidates
mimeTypes ==
    << "video/mp4;codecs=avc1,mp4a.40.2",
       "video/mp4;codecs=avc1",
       "video/mp4",
       "video/webm;codecs=h264",
       "video/webm;codecs=vp9,opus",
       "video/webm" >>

MimeTypeSet == {mimeTypes[n] : n \in 1 .. Len(mimeTypes)}

\* The driver state before playVideoToCanvas is invoked for the clip.
NoDriver ==
    [promise |-> "none", error |-> "none", invoked |-> 0,
     creates |-> 0, revokes |-> 0,
     source |-> "null", connected |-> FALSE,
     connects |-> 0, disconnects |-> 0,
     net |-> "none", paused |-> TRUE, ended |-> FALSE,
     playP |-> "none", raf |-> FALSE, lateDraw |-> FALSE, pauses |-> 0]

NoRecorder ==
    [state |-> "none", starts |-> 0, stops |-> 0,
     onstop |-> FALSE, stopEvent |-> FALSE, aborted |-> FALSE]

\* ------------------------------------------------------------------- Init
\* A call of stitchVideos with a list of one of the lengths in lengths, in a
\* host that supports one of the sets of types in hosts.
InitOf(lengths, hosts) ==
    /\ videos \in lengths
    /\ pc = "idle"
    /\ i = 0
    /\ outcome = Pending
    /\ canvas = FALSE
    /\ audioCtx = "none"
    /\ mediaRecorder = NoRecorder
    /\ progress = << >>
    /\ clip = [c \in Clips |-> NoDriver]
    /\ canvasWriter = NoClip
    /\ supported \in hosts
    /\ selectedMimeType = ""
    /\ chunks = << >>
    /\ emitted = << >>
    /\ blob = NoBlob

\* Hosts that support every candidate, only the last one, or none.
HostSample == {MimeTypeSet, {"video/webm"}, {}}

\* No run of drawFrame is followed.
NoCapture ==
    [width |-> 0, height |-> 0, videoWidth |-> 0, videoHeight |-> 0,
     paused |-> TRUE, ended |-> FALSE,
     ran |-> FALSE, cleared |-> FALSE, called |-> FALSE, painted |-> FALSE,
     raf |-> FALSE,
     scale |-> <<0, 1>>, x |-> <<0, 1>>, y |-> <<0, 1>>,
     w |-> <<0, 1>>, h |-> <<0, 1>>]

\* App line 9: the initial progress state
NoProgress == [currentClipIndex |-> 0, totalClips |-> 0, statusMessage |-> ""]

\* stitchVideos is called without the App component: nothing is mounted.
NoApp ==
    [mounted |-> FALSE, appState |-> "IDLE", videoFiles |-> 0,
     progress |-> NoProgress, dirty |-> FALSE, runs |-> 0,
     rendered |-> [appState |-> "IDLE", totalClips |-> 0]]

Init ==
    /\ InitOf(0 .. MaxClips, HostSample)
    /\ capture = NoCapture
    /\ app = NoApp

\* One clip, in a host with any set of supported types.
MimeInit ==
    /\ InitOf({1}, SUBSET MimeTypeSet)
    /\ capture = NoCapture
    /\ app = NoApp

\* ------------------------------------------------ pieces of stitchVideos
\* line 13: videos.length === 0
IsEmpty_never(n) == FALSE
IsEmpty(n) == n = 0

\* line 94: currentClipIndex: i + 1
ClipNumber_same(k) == k
ClipNumber(k) == k + 1

\* line 99: await - the continuation runs once the driver's promise settled
Awaited_nowait(p) == TRUE
Awaited(p) == p \in {"resolved", "rejected"}

\* line 99: await rethrows the rejection of the awaited promise
Throws_swallow(p) == FALSE
Throws(p) == p = "rejected"

\* App line 62: the callback (p) => setProgress(p), when the App is mounted
OnProgress(a, p) ==
    IF a.mounted THEN [a EXCEPT !.progress = p, !.dirty = TRUE] ELSE a

\* line 90: i < videos.length
InLoop(k) == k < videos

\* A synchronous block of stitchVideos, or its continuation (a microtask),
\* is due: the host delivers no event before it has run.
Busy ==
    \/ pc \in {"record", "loop", "final_progress", "stopping"}
    \/ /\ pc = "await_clip"
       /\ i \in Clips
       /\ Awaited(clip[i].promise)
    \/ app.dirty

\* lines 13-39: the empty check, the canvas, its context, the AudioContext
stitchVideos ==
    /\ pc = "idle"
    /\ IF IsEmpty(videos)
       THEN /\ outcome' = Rejected(RawError("No videos to stitch"))
            /\ pc' = "done"
            /\ UNCHANGED <<canvas, audioCtx>>
       ELSE /\ canvas' = TRUE
            /\ \E ctx \in BOOLEAN :
                 IF ~ctx
                 THEN /\ outcome' =
                           Rejected(RawError("Could not create canvas context"))
                      /\ pc' = "done"
                      /\ UNCHANGED audioCtx
                 ELSE /\ \E st \in {"suspended", "running"} :
                           /\ audioCtx' = st
                           /\ pc' = IF st = "suspended"
                                    THEN "await_resume" ELSE "record"
                      /\ UNCHANGED outcome
    /\ UNCHANGED <<mimeVars, dataVars>>
    /\ UNCHANGED <<capture, app>>
    /\ UNCHANGED <<videos, i, mediaRecorder, progress, clip, canvasWriter>>

\* line 38: await audioCtx.resume() resolves
resume ==
    /\ pc = "await_resume"
    /\ ~app.dirty
    /\ audioCtx' = "running"
    /\ pc' = "record"
    /\ UNCHANGED <<mimeVars, dataVars>>
    /\ UNCHANGED <<capture, app>>
    /\ UNCHANGED <<videos, i, outcome, canvas, mediaRecorder, progress,
                   clip, canvasWriter>>

\* lines 62-67: the first candidate the host supports, "" when there is none
RECURSIVE FirstSupported(_, _)
FirstSupported(n, sup) ==
    IF n > Len(mimeTypes) THEN ""
    ELSE IF mimeTypes[n] \in sup THEN mimeTypes[n]
    ELSE FirstSupported(n + 1, sup)

\* lines 61-72: the negotiation with its fallback
Negotiate_last(sup) ==
    IF sup = {} THEN "video/webm"
    ELSE mimeTypes[CHOOSE n \in 1 .. Len(mimeTypes) :
                     /\ mimeTypes[n] \in sup
                     /\ \A m \in 1 .. Len(mimeTypes) :
                          mimeTypes[m] \in sup => m <= n]
Negotiate(sup) ==
    IF FirstSupported(1, sup) = "" THEN "video/webm"
    ELSE FirstSupported(1, sup)

\* lines 43-87: the streams, the mime type, new MediaRecorder, start().
\* The constructor throws NotSupportedError for a type the host does not
\* support, which only the fallback type can be.
startRecording ==
    /\ pc = "record"
    /\ selectedMimeType' = Negotiate(supported)
    /\ IF selectedMimeType' \in supported
       THEN /\ mediaRecorder' = [mediaRecorder EXCEPT !.state = "recording",
                                                      !.starts = @ + 1]
            /\ i' = 0
            /\ pc' = "loop"
            /\ UNCHANGED outcome
       ELSE /\ outcome' = Rejected(RawError("NotSupportedError"))
            /\ pc' = "done"
            /\ UNCHANGED <<mediaRecorder, i>>
    /\ UNCHANGED supported
    /\ UNCHANGED dataVars
    /\ UNCHANGED <<capture, app>>
    /\ UNCHANGED <<videos, canvas, audioCtx, progress, clip, canvasWriter>>

\* lines 131-143: the promise, the element, URL.createObjectURL(file)
playVideoToCanvas(d) ==
    [d EXCEPT !.promise = "pending", !.invoked = @ + 1,
              !.creates = @ + 1, !.net = "loading",
              !.paused = TRUE, !.ended = FALSE]

\* lines 90-99: the loop test, onProgress, the driver of clip i
loopStep ==
    /\ pc = "loop"
    /\ IF InLoop(i)
       THEN /\ progress' = Append(progress,
                   [currentClipIndex |-> ClipNumber(i), totalClips |-> videos,
                    statusMessage |-> "clip"])
            /\ app' = OnProgress(app,
                   [currentClipIndex |-> ClipNumber(i), totalClips |-> videos,
                    statusMessage |-> "clip"])
            /\ clip' = [clip EXCEPT ![i] = playVideoToCanvas(@)]
            /\ pc' = "await_clip"
       ELSE /\ pc' = "final_progress"
            /\ UNCHANGED <<progress, clip, app>>
    /\ UNCHANGED <<mimeVars, dataVars>>
    /\ UNCHANGED capture
    /\ UNCHANGED <<videos, i, outcome, canvas, audioCtx, mediaRecorder,
                   canvasWriter>>

\* line 99: the continuation after await playVideoToCanvas(...)
awaitClip ==
    /\ pc = "await_clip"
    /\ ~app.dirty
    /\ i \in Clips
    /\ Awaited(clip[i].promise)
    /\ IF Throws(clip[i].promise)
       THEN /\ outcome' = Rejected(RawError(clip[i].error))
            /\ pc' = "done"
            /\ UNCHANGED i
       ELSE /\ i' = i + 1
            /\ pc' = "loop"
            /\ UNCHANGED outcome
    /\ UNCHANGED <<mimeVars, dataVars>>
    /\ UNCHANGED <<capture, app>>
    /\ UNCHANGED <<videos, canvas, audioCtx, mediaRecorder, progress, clip,
                   canvasWriter>>

\* lines 102-106: the final onProgress
finalProgress ==
    /\ pc = "final_progress"
    /\ progress' = Append(progress,
           [currentClipIndex |-> videos, totalClips |-> videos,
            statusMessage |-> "final"])
    /\ app' = OnProgress(app,
           [currentClipIndex |-> videos, totalClips |-> videos,
            statusMessage |-> "final"])
    /\ pc' = "stopping"
    /\ UNCHANGED <<mimeVars, dataVars>>
    /\ UNCHANGED capture
    /\ UNCHANGED <<videos, i, outcome, canvas, audioCtx, mediaRecorder,
                   clip, canvasWriter>>

\* lines 109-120: new Promise: onstop is set, mediaRecorder.stop() is called.
\* On a recorder that is already inactive stop() throws InvalidStateError
\* (the executor's throw rejects the promise) or returns without queueing a
\* stop event, depending on the host.
stopRecording ==
    /\ pc = "stopping"
    /\ IF mediaRecorder.state = "recording"
       THEN /\ mediaRecorder' = [mediaRecorder EXCEPT !.state = "inactive",
                       !.stops = @ + 1, !.onstop = TRUE, !.stopEvent = TRUE]
            /\ pc' = "await_stop"
            /\ UNCHANGED outcome
       ELSE \E throws \in BOOLEAN :
              /\ mediaRecorder' = [mediaRecorder EXCEPT !.stops = @ + 1,
                                                        !.onstop = TRUE]
              /\ IF throws
                 THEN /\ outcome' = Rejected(RawError("InvalidStateError"))
                      /\ pc' = "done"
                 ELSE /\ pc' = "await_stop"
                      /\ UNCHANGED outcome
    /\ UNCHANGED <<mimeVars, dataVars>>
    /\ UNCHANGED <<capture, app>>
    /\ UNCHANGED <<videos, i, canvas, audioCtx, progress, clip, canvasWriter>>

\* The dataavailable event number n, fired while clip c is the current one:
\* data is what the recorder gathered, possibly nothing.
DataEvents(n, c) == {[id |-> n, data |-> d, clip |-> c] : d \in {<< >>, <<n>>}}

\* lines 81-85: ondataavailable
Push_front(buf, e) == IF Len(e.data) > 0 THEN <<e>> \o buf ELSE buf
Push(buf, e) == IF Len(e.data) > 0 THEN Append(buf, e) ELSE buf

\* line 112: new Blob(chunks, { type: selectedMimeType })
RECURSIVE Concat(_)
Concat(parts) ==
    IF parts = << >> THEN << >>
    ELSE Head(parts).data \o Concat(Tail(parts))

BlobOf(parts, type) == [type |-> type, data |-> Concat(parts)]

\* lines 81-85: the recorder hands over data while it records
ondataavailable ==
    /\ ~Busy
    /\ mediaRecorder.state = "recording"
    /\ Len(emitted) < MaxChunks
    /\ \E e \in DataEvents(Len(emitted) + 1, i) :
         /\ emitted' = Append(emitted, e)
         /\ chunks' = Push(chunks, e)
    /\ UNCHANGED <<mimeVars, blob>>
    /\ UNCHANGED <<capture, app>>
    /\ UNCHANGED <<videos, pc, i, outcome, canvas, audioCtx, mediaRecorder,
                   progress, clip, canvasWriter>>

\* lines 110-116: after stop() the recorder fires the last dataavailable and
\* then the stop event, which runs onstop up to await audioCtx.close()
onstop ==
    /\ ~Busy
    /\ mediaRecorder.stopEvent
    /\ mediaRecorder.onstop
    /\ mediaRecorder' = [mediaRecorder EXCEPT !.stopEvent = FALSE]
    /\ \E e \in DataEvents(Len(emitted) + 1, i) :
         /\ emitted' = Append(emitted, e)
         /\ chunks' = Push(chunks, e)
    /\ blob' = BlobOf(chunks', selectedMimeType)
    /\ IF audioCtx # "closed"
       THEN /\ pc' = "await_close"
            /\ UNCHANGED outcome
       ELSE /\ outcome' = Fulfilled(blob')
            /\ pc' = "done"
    /\ UNCHANGED mimeVars
    /\ UNCHANGED <<capture, app>>
    /\ UNCHANGED <<videos, i, canvas, audioCtx, progress, clip, canvasWriter>>

\* lines 115-117: audioCtx.close() resolves, resolve(blob)
closeResolved ==
    /\ pc = "await_close"
    /\ ~app.dirty
    /\ audioCtx' = "closed"
    /\ outcome' = Fulfilled(blob)
    /\ pc' = "done"
    /\ UNCHANGED <<mimeVars, dataVars>>
    /\ UNCHANGED <<capture, app>>
    /\ UNCHANGED <<videos, i, canvas, mediaRecorder, progress, clip,
                   canvasWriter>>

\* line 115: audioCtx.close() rejects: onstop throws, resolve is never called
closeRejected ==
    /\ pc = "await_close"
    /\ ~app.dirty
    /\ pc' = "onstop_failed"
    /\ UNCHANGED <<mimeVars, dataVars>>
    /\ UNCHANGED <<capture, app>>
    /\ UNCHANGED <<videos, i, outcome, canvas, audioCtx, mediaRecorder,
                   progress, clip, canvasWriter>>

\* The recorder stops by itself while the clips are processed: it fires
\* error, dataavailable and stop; onstop is not yet set, the stop event is
\* lost.
recorderError ==
    /\ ~Busy
    /\ mediaRecorder.state = "recording"
    /\ mediaRecorder' = [mediaRecorder EXCEPT !.state = "inactive",
                                              !.aborted = TRUE]
    /\ \E e \in DataEvents(Len(emitted) + 1, i) :
         /\ emitted' = Append(emitted, e)
         /\ chunks' = Push(chunks, e)
    /\ UNCHANGED <<mimeVars, blob>>
    /\ UNCHANGED <<capture, app>>
    /\ UNCHANGED <<videos, pc, i, outcome, canvas, audioCtx, progress, clip,
                   canvasWriter>>

\* ------------------------------------------- pieces of playVideoToCanvas
\* resolve() / reject(e) of the driver's promise: only the first one counts
Settle(d, how, e) ==
    IF d.promise = "pending"
    THEN [d EXCEPT !.promise = how, !.error = e]
    ELSE d

\* lines 181-183 and 189-191: if (source) source.disconnect()
Disconnect(d) ==
    IF d.source # "null"
    THEN [d EXCEPT !.disconnects = @ + 1, !.connected = FALSE]
    ELSE d

\* lines 166-172: createMediaElementSource and connect inside try/catch
Attach(d, how) ==
    CASE how = "ok" ->
           [d EXCEPT !.source = "node", !.connected = TRUE,
                     !.connects = @ + 1]
      [] how = "createThrows" -> d
      [] how = "connectThrows" -> [d EXCEPT !.source = "node"]

\* lines 146-163: drawFrame; TRUE when it drew and scheduled the next frame
Draws(d) == ~(d.paused \/ d.ended)

\* lines 146-163: one run of drawFrame: the next frame callback is scheduled
\* exactly when it drew; lateDraw records a draw made after the driver's
\* promise had settled.
drawFrame(d) ==
    [d EXCEPT !.raf = Draws(d),
              !.lateDraw = @ \/ (Draws(d) /\ d.promise # "pending")]

\* lines 165-177: loadedmetadata fires: the audio is attached, play() called
onloadedmetadata(k) ==
    /\ ~Busy
    /\ clip[k].net = "loading"
    /\ \E how \in {"ok", "createThrows", "connectThrows"} :
         clip' = [clip EXCEPT ![k] =
                    [Attach(@, how) EXCEPT !.net = "loaded",
                                           !.paused = FALSE,
                                           !.playP = "pending"]]
    /\ UNCHANGED <<mimeVars, dataVars>>
    /\ UNCHANGED <<capture, app>>
    /\ UNCHANGED <<videos, pc, i, outcome, canvas, audioCtx, mediaRecorder,
                   progress, canvasWriter>>

\* lines 174-175: video.play() resolves, then drawFrame()
playResolved(k) ==
    /\ ~Busy
    /\ clip[k].net = "loaded"
    /\ clip[k].playP = "pending"
    /\ clip' = [clip EXCEPT ![k] = [drawFrame(@) EXCEPT !.playP = "resolved"]]
    /\ canvasWriter' = IF Draws(clip[k]) THEN k ELSE canvasWriter
    /\ UNCHANGED <<mimeVars, dataVars>>
    /\ UNCHANGED <<capture, app>>
    /\ UNCHANGED <<videos, pc, i, outcome, canvas, audioCtx, mediaRecorder,
                   progress>>

\* line 176: video.play() rejects, .catch(reject)
playRejected(k) ==
    /\ ~Busy
    /\ clip[k].net = "loaded"
    /\ clip[k].playP = "pending"
    /\ clip' = [clip EXCEPT ![k] =
                  Settle([@ EXCEPT !.playP = "rejected", !.paused = TRUE],
                         "rejected", "NotAllowedError")]
    /\ UNCHANGED <<mimeVars, dataVars>>
    /\ UNCHANGED <<capture, app>>
    /\ UNCHANGED <<videos, pc, i, outcome, canvas, audioCtx, mediaRecorder,
                   progress, canvasWriter>>

\* lines 179-186: the clip reaches its end, onended
onended(k) ==
    /\ ~Busy
    /\ clip[k].net = "loaded"
    /\ clip[k].playP = "resolved"
    /\ ~clip[k].paused
    /\ ~clip[k].ended
    /\ clip' = [clip EXCEPT ![k] =
                  Settle([Disconnect(@) EXCEPT !.ended = TRUE,
                                               !.paused = TRUE,
                                               !.revokes = @ + 1],
                         "resolved", "none")]
    /\ UNCHANGED <<mimeVars, dataVars>>
    /\ UNCHANGED <<capture, app>>
    /\ UNCHANGED <<videos, pc, i, outcome, canvas, audioCtx, mediaRecorder,
                   progress, canvasWriter>>

\* lines 188-193: the element fails to open or to decode, onerror
onerror(k) ==
    /\ ~Busy
    /\ clip[k].net \in {"loading", "loaded"}
    /\ ~clip[k].ended
    /\ clip' = [clip EXCEPT ![k] =
                  Settle([Disconnect(@) EXCEPT !.net = "error"],
                         "rejected", "error event")]
    /\ UNCHANGED <<mimeVars, dataVars>>
    /\ UNCHANGED <<capture, app>>
    /\ UNCHANGED <<videos, pc, i, outcome, canvas, audioCtx, mediaRecorder,
                   progress, canvasWriter>>

\* The host pauses the playing element (no handler is registered for it).
hostPause(k) ==
    /\ ~Busy
    /\ clip[k].net = "loaded"
    /\ clip[k].playP = "resolved"
    /\ ~clip[k].paused
    /\ ~clip[k].ended
    /\ clip[k].pauses < MaxPauses
    /\ clip' = [clip EXCEPT ![k].paused = TRUE, ![k].pauses = @ + 1]
    /\ UNCHANGED <<mimeVars, dataVars>>
    /\ UNCHANGED <<capture, app>>
    /\ UNCHANGED <<videos, pc, i, outcome, canvas, audioCtx, mediaRecorder,
                   progress, canvasWriter>>

\* The host resumes the element it paused.
hostPlay(k) ==
    /\ ~Busy
    /\ clip[k].net = "loaded"
    /\ clip[k].playP = "resolved"
    /\ clip[k].paused
    /\ ~clip[k].ended
    /\ clip' = [clip EXCEPT ![k].paused = FALSE]
    /\ UNCHANGED <<mimeVars, dataVars>>
    /\ UNCHANGED <<capture, app>>
    /\ UNCHANGED <<videos, pc, i, outcome, canvas, audioCtx, mediaRecorder,
                   progress, canvasWriter>>

\* line 162: the frame callback requestAnimationFrame scheduled runs drawFrame
tick(k) ==
    /\ ~Busy
    /\ clip[k].raf
    /\ clip' = [clip EXCEPT ![k] = drawFrame(@)]
    /\ canvasWriter' = IF Draws(clip[k]) THEN k ELSE canvasWriter
    /\ UNCHANGED <<mimeVars, dataVars>>
    /\ UNCHANGED <<capture, app>>
    /\ UNCHANGED <<videos, pc, i, outcome, canvas, audioCtx, mediaRecorder,
                   progress>>

\* ----------------------------------------------------------- specification
Program ==
    \/ stitchVideos
    \/ startRecording
    \/ loopStep
    \/ awaitClip
    \/ finalProgress
    \/ stopRecording

Next ==
    \/ stitchVideos
    \/ resume
    \/ startRecording
    \/ loopStep
    \/ awaitClip
    \/ finalProgress
    \/ stopRecording
    \/ onstop
    \/ closeResolved
    \/ closeRejected
    \/ recorderError
    \/ ondataavailable
    \/ \E k \in Clips : onloadedmetadata(k)
    \/ \E k \in Clips : playResolved(k)
    \/ \E k \in Clips : playRejected(k)
    \/ \E k \in Clips : onended(k)
    \/ \E k \in Clips : onerror(k)
    \/ \E k \in Clips : hostPause(k)
    \/ \E k \in Clips : hostPlay(k)
    \/ \E k \in Clips : tick(k)

Spec == Init /\ [][Next]_vars

MimeSpec == MimeInit /\ [][Next]_vars

\* The event loop runs every due block of the program, and the host delivers
\* the events of a healthy run: resume, loadedmetadata, the play promise,
\* ended, the recorder's stop event, the end of close().  Faults (error
\* events, pauses, a rejected play or close) are never forced.
FairSpec ==
    /\ Spec
    /\ WF_vars(Program)
    /\ WF_vars(resume)
    /\ WF_vars(onstop)
    /\ WF_vars(closeResolved)
    /\ \A k \in Clips : WF_vars(onloadedmetadata(k))
    /\ \A k \in Clips : WF_vars(playResolved(k))
    /\ \A k \in Clips : WF_vars(onended(k))

\* ------------------------------------------------- the arithmetic of drawFrame
\* A number is a pair <<n, d>> standing for n / d with d >= 0: d = 0 is
\* Infinity (n > 0), -Infinity (n < 0) or NaN (n = 0), as a division by
\* zero and a product with Infinity give them.
Num(n) == <<n, 1>>

Div(a, b) == <<a, b>>

IsNaN(p) == p[1] = 0 /\ p[2] = 0

IsFinite(p) == p[2] # 0

Leq(p, q) == p[1] * q[2] <= q[1] * p[2]

Eq(p, q) == IsFinite(p) /\ IsFinite(q) /\ p[1] * q[2] = q[1] * p[2]

\* line 154: Math.min
MinOf_max(p, q) ==
    IF IsNaN(p) \/ IsNaN(q) THEN <<0, 0>>
    ELSE IF Leq(p, q) THEN q ELSE p
MinOf(p, q) ==
    IF IsNaN(p) \/ IsNaN(q) THEN <<0, 0>>
    ELSE IF Leq(p, q) THEN p ELSE q

\* lines 155-156: video.videoWidth * scale
Mul(k, p) == <<k * p[1], p[2]>>

\* lines 157-158: (width - w) / 2
HalfRest(k, p) == <<k * p[2] - p[1], 2 * p[2]>>

\* lines 154-158: scale, w, h, x, y
DrawRect(c) ==
    LET scale == MinOf(Div(c.width, c.videoWidth),
                       Div(c.height, c.videoHeight))
        w == Mul(c.videoWidth, scale)
        h == Mul(c.videoHeight, scale)
    IN  [scale |-> scale, w |-> w, h |-> h,
         x |-> HalfRest(c.width, w), y |-> HalfRest(c.height, h)]

\* line 160: drawImage paints unless an argument is not finite or the
\* rectangle is empty
Paints(r) ==
    /\ IsFinite(r.x) /\ IsFinite(r.y) /\ IsFinite(r.w) /\ IsFinite(r.h)
    /\ r.w[1] > 0
    /\ r.h[1] > 0

\* lines 146-163: drawFrame with its arithmetic
RunDrawFrame(c) ==
    IF c.paused \/ c.ended
    THEN [c EXCEPT !.ran = TRUE]
    ELSE LET r == DrawRect(c) IN
         [c EXCEPT !.ran = TRUE, !.cleared = TRUE, !.called = TRUE,
                   !.painted = Paints(r), !.raf = TRUE,
                   !.scale = r.scale, !.x = r.x, !.y = r.y,
                   !.w = r.w, !.h = r.h]

\* A frame callback of an element with any frame size, zero included, on a
\* canvas of any size.
DrawInit ==
    /\ InitOf({0}, {{}})
    /\ app = NoApp
    /\ \E W \in 1 .. MaxDim, H \in 1 .. MaxDim,
          vw \in 0 .. MaxDim, vh \in 0 .. MaxDim, p \in BOOLEAN, e \in BOOLEAN :
         capture = [NoCapture EXCEPT !.width = W, !.height = H,
                                     !.videoWidth = vw, !.videoHeight = vh,
                                     !.paused = p, !.ended = e]

captureFrame ==
    /\ ~capture.ran
    /\ capture' = RunDrawFrame(capture)
    /\ UNCHANGED runVars
    /\ UNCHANGED app

DrawNext == captureFrame

DrawSpec == DrawInit /\ [][DrawNext]_vars

\* ------------------------------------------------------- the App component
\* The component is mounted, no folder is chosen, stitchVideos is not called.
AppInit ==
    /\ videos = 0
    /\ pc = "uncalled"
    /\ i = 0
    /\ outcome = Pending
    /\ canvas = FALSE
    /\ audioCtx = "none"
    /\ mediaRecorder = NoRecorder
    /\ progress = << >>
    /\ clip = [c \in Clips |-> NoDriver]
    /\ canvasWriter = NoClip
    /\ supported = MimeTypeSet
    /\ selectedMimeType = ""
    /\ chunks = << >>
    /\ emitted = << >>
    /\ blob = NoBlob
    /\ capture = NoCapture
    /\ app = [NoApp EXCEPT !.mounted = TRUE]

\* A synchronous block of stitchVideos is running: React renders when the
\* block has reached an await or has returned.
InBlock == pc \in {"idle", "record", "loop", "final_progress", "stopping"}

\* App lines 17-53: a folder with n video files is chosen
handleFolderUpload ==
    /\ ~Busy
    /\ app.appState = "IDLE"
    /\ app.videoFiles = 0
    /\ \E n \in 1 .. MaxClips :
         app' = [app EXCEPT !.videoFiles = n, !.dirty = TRUE]
    /\ UNCHANGED <<runVars, capture>>

\* App lines 55-62: the length check, setAppState(PROCESSING), the call of
\* stitchVideos, which starts with fresh locals
handleStartProcessing ==
    /\ ~Busy
    /\ app.appState = "IDLE"
    /\ app.videoFiles # 0
    /\ app.runs < MaxRuns
    /\ app' = [app EXCEPT !.appState = "PROCESSING", !.dirty = TRUE,
                          !.runs = @ + 1]
    /\ videos' = app.videoFiles
    /\ pc' = "idle"
    /\ i' = 0
    /\ outcome' = Pending
    /\ canvas' = FALSE
    /\ audioCtx' = "none"
    /\ mediaRecorder' = NoRecorder
    /\ progress' = << >>
    /\ clip' = [c \in Clips |-> NoDriver]
    /\ canvasWriter' = NoClip
    /\ selectedMimeType' = ""
    /\ chunks' = << >>
    /\ emitted' = << >>
    /\ blob' = NoBlob
    /\ UNCHANGED <<supported, capture>>

\* App lines 62-71: the continuation of await stitchVideos(...), or its catch
handleSettled ==
    /\ ~app.dirty
    /\ app.appState = "PROCESSING"
    /\ outcome.status # "pending"
    /\ app' = [app EXCEPT !.dirty = TRUE,
                          !.appState = IF outcome.status = "blob"
                                       THEN "COMPLETED" ELSE "ERROR"]
    /\ UNCHANGED <<runVars, capture>>

\* App lines 91-101: resetApp, offered on the list, the result and the error
resetApp ==
    /\ ~Busy
    /\ \/ app.appState \in {"COMPLETED", "ERROR"}
       \/ app.appState = "IDLE" /\ app.videoFiles # 0
    /\ app' = [app EXCEPT !.videoFiles = 0, !.appState = "IDLE",
                          !.progress = NoProgress, !.dirty = TRUE]
    /\ UNCHANGED <<runVars, capture>>

\* App lines 181-198: the state is rendered once the running block has
\* yielded; in PROCESSING the bar's width is currentClipIndex / totalClips
render ==
    /\ app.dirty
    /\ ~InBlock
    /\ app' = [app EXCEPT !.dirty = FALSE,
                          !.rendered = [appState |-> app.appState,
                                        totalClips |-> app.progress.totalClips]]
    /\ UNCHANGED <<runVars, capture>>

AppNext ==
    \/ Next
    \/ handleFolderUpload
    \/ handleStartProcessing
    \/ handleSettled
    \/ resetApp
    \/ render

AppSpec == AppInit /\ [][AppNext]_vars

\* ------------------------------------------------------------- properties
Settled(k) == clip[k].promise \in {"resolved", "rejected"}

Failed(k) == clip[k].promise = "rejected"

RunEnded == outcome.status # "pending"

RECURSIVE Total(_, _)
Total(field, n) ==
    IF n = 0 THEN 0 ELSE clip[n - 1][field] + Total(field, n - 1)

\* C1: when the driver of clip k fails, stitchVideos fails with a
\* ClipProcessingError carrying clipIndex = k and the driver's error as
\* cause, never with the raw driver error, and returns no output.
C1_WrappedError ==
    \A k \in Clips :
        (Failed(k) /\ pc = "done") =>
            /\ outcome.status = "rejected"
            /\ outcome.error.name = "ClipProcessingError"
            /\ outcome.error.clipIndex = k
            /\ outcome.error.cause = clip[k].error

\* C2: a run that a clip's failure rejected has, by then, signalled the
\* recorder to stop and closed the audio context.
C2_TeardownBeforeError ==
    (outcome.status = "rejected" /\ \E k \in Clips : Failed(k)) =>
        /\ mediaRecorder.state # "recording"
        /\ audioCtx = "closed"

\* C3: every object URL a driver created is revoked once the driver's
\* promise has settled, and at the end of a run the createObjectURL and
\* revokeObjectURL calls are equal in number.
C3_UrlsRevoked ==
    /\ \A k \in Clips : Settled(k) => clip[k].revokes = clip[k].creates
    /\ RunEnded => Total("revokes", MaxClips) = Total("creates", MaxClips)

\* C4: a clip's audio source that was connected is disconnected once the
\* clip's driver has settled, and at the end of a run the successful
\* connects and the disconnects are equal in number.
C4_AudioDetached ==
    /\ \A k \in Clips : Settled(k) => ~clip[k].connected
    /\ RunEnded =>
         Total("disconnects", MaxClips) = Total("connects", MaxClips)

\* C5: for a non-empty clip list stitchVideos eventually settles, with a
\* blob or with an error, when the host delivers the events that are due.
C5_EventuallySettles == (videos > 0) ~> RunEnded

\* C6: the clips are driven one at a time in list order: each driver is
\* invoked at most once, only after every earlier driver has resolved, and
\* two drivers are never unsettled together.
C6_Sequential ==
    /\ Cardinality({k \in Clips : clip[k].promise = "pending"}) <= 1
    /\ \A k \in Clips : clip[k].invoked <= 1
    /\ \A k \in Clips :
         clip[k].promise # "none" =>
             \A j \in Clips : j < k => clip[j].promise = "resolved"

C6_Witness ==
    /\ videos >= 2
    /\ clip[0].promise = "resolved"
    /\ clip[1].promise = "pending"
    /\ clip[1].playP = "resolved"

\* C7: once clip k has failed, no later clip's driver is invoked, no
\* further onProgress call is made (the k+1 calls made up to clip k stay
\* the only ones, no "final" call) and no blob is produced.
C7_AbortOnFailure ==
    \A k \in Clips :
        Failed(k) =>
            /\ \A j \in Clips : j > k => clip[j].promise = "none"
            /\ Len(progress) = k + 1
            /\ \A n \in 1 .. Len(progress) :
                 progress[n].statusMessage # "final"
            /\ outcome.status # "blob"

C7_Witness ==
    /\ videos >= 2
    /\ Failed(0)
    /\ outcome.status = "rejected"

\* C8: the onProgress calls of a run are, in order, one call per clip with
\* currentClipIndex 1, 2, .. , each made no later than its clip's driver is
\* invoked and only after the previous clip's driver resolved, then one
\* final call with currentClipIndex = totalClips = N after the last driver
\* resolved; totalClips is N in every call; a successful run has made all
\* N + 1 calls.
C8_ProgressCalls ==
    /\ \A n \in 1 .. Len(progress) :
         /\ progress[n].totalClips = videos
         /\ progress[n].statusMessage = "clip" =>
              /\ n <= videos
              /\ progress[n].currentClipIndex = n
              /\ n >= 2 => clip[n - 2].promise = "resolved"
         /\ progress[n].statusMessage = "final" =>
              /\ n = videos + 1
              /\ progress[n].currentClipIndex = videos
              /\ \A k \in Clips : k < videos => clip[k].promise = "resolved"
    /\ \A k \in Clips : clip[k].promise # "none" => Len(progress) >= k + 1
    /\ outcome.status = "blob" =>
         /\ Len(progress) = videos + 1
         /\ progress[videos + 1].statusMessage = "final"

C8_Witness ==
    /\ videos >= 2
    /\ outcome.status = "blob"

\* C9: called with an empty list, stitchVideos fails with the empty-input
\* error and has done nothing else: no canvas, no audio context, no
\* recorder, no driver, no onProgress call.
C9_EmptyInput ==
    (videos = 0 /\ pc # "idle") =>
        /\ outcome = Rejected(RawError("No videos to stitch"))
        /\ ~canvas
        /\ audioCtx = "none"
        /\ mediaRecorder = NoRecorder
        /\ progress = << >>
        /\ \A k \in Clips : clip[k] = NoDriver

C9_Witness ==
    /\ videos = 0
    /\ pc = "done"
    /\ outcome.status = "rejected"

\* C10: the recorder is started once, before the first onProgress call and
\* the first driver; it records while a clip plays (unless it stopped by
\* itself); stop() is called once, after the final onProgress call; a blob
\* is delivered only after the stop event; and no run has ended, with a
\* blob or an error, while the recorder is still recording.
C10_EncoderActiveForRun ==
    /\ mediaRecorder.starts <= 1
    /\ mediaRecorder.stops <= 1
    /\ (progress # << >> \/ \E k \in Clips : clip[k].promise # "none") =>
         mediaRecorder.starts = 1
    /\ ((\E k \in Clips : clip[k].promise = "pending")
          /\ ~mediaRecorder.aborted) => mediaRecorder.state = "recording"
    /\ mediaRecorder.stops = 1 =>
         /\ Len(progress) = videos + 1
         /\ \A k \in Clips : k < videos => clip[k].promise = "resolved"
    /\ outcome.status = "blob" =>
         (mediaRecorder.stops = 1 /\ ~mediaRecorder.stopEvent)
    /\ RunEnded => mediaRecorder.state # "recording"

\* C11: a settled driver is final: its promise keeps its settlement and its
\* reason, and no later host event runs its cleanup again (no further
\* disconnect, no further revoke).
C11_TerminalAbsorbing ==
    [][\A k \in Clips :
         Settled(k) =>
             /\ clip'[k].promise = clip[k].promise
             /\ clip'[k].error = clip[k].error
             /\ clip'[k].disconnects = clip[k].disconnects
             /\ clip'[k].revokes = clip[k].revokes]_vars

\* The audio of clip k could not be attached in onloadedmetadata.
AttachFailed(k) == clip[k].playP # "none" /\ clip[k].connects = 0

\* C12: a clip whose audio could not be attached (createMediaElementSource
\* or connect threw) is not failed by that: onloadedmetadata leaves the
\* driver pending with play() called, the clip has no audio connection, and
\* at its natural end the driver resolves without a detach having been
\* attempted.
C12_AttachFailureNonFatal ==
    /\ [](\A k \in Clips :
            AttachFailed(k) =>
                /\ ~clip[k].connected
                /\ (clip[k].ended =>
                      /\ clip[k].promise = "resolved"
                      /\ clip[k].disconnects = 0))
    /\ [][\A k \in Clips :
            (clip[k].net = "loading" /\ clip'[k].net = "loaded"
               /\ clip'[k].connects = 0) =>
                /\ clip'[k].promise = "pending"
                /\ clip'[k].playP = "pending"
                /\ ~clip'[k].paused]_vars

\* C13: at most one clip's audio source is connected to the destination,
\* and a connected source belongs to a clip whose driver is still pending.
C13_OneProducer ==
    /\ Cardinality({k \in Clips : clip[k].connected}) <= 1
    /\ \A k \in Clips : clip[k].connected => clip[k].promise = "pending"

\* The type the negotiation is to yield in a host that supports sup.
IsFirstSupported(t, sup) ==
    \/ \E n \in 1 .. Len(mimeTypes) :
         /\ t = mimeTypes[n]
         /\ t \in sup
         /\ \A m \in 1 .. (n - 1) : mimeTypes[m] \notin sup
    \/ /\ t = "video/webm"
       /\ \A n \in 1 .. Len(mimeTypes) : mimeTypes[n] \notin sup

\* C14: whatever subset of the candidates the host supports, once the
\* negotiation has run the selected type is the first supported candidate,
\* or "video/webm" when none is supported (it always yields a type), and
\* the blob of a successful run has exactly the selected type.
C14_Negotiation ==
    /\ (pc \notin {"idle", "await_resume", "record"} /\ canvas
          /\ audioCtx # "none") =>
           IsFirstSupported(selectedMimeType, supported)
    /\ selectedMimeType # "" => IsFirstSupported(selectedMimeType, supported)
    /\ outcome.status = "blob" =>
         /\ outcome.blob.type = selectedMimeType
         /\ IsFirstSupported(outcome.blob.type, supported)

C14_Witness ==
    /\ supported = {"video/mp4", "video/webm;codecs=h264", "video/webm"}
    /\ outcome.status = "blob"
    /\ outcome.blob.type = "video/mp4"

\* C15: the canvas is drawn on by the active driver only: drawFrame of a
\* clip never draws (and so never schedules a further frame callback) once
\* the clip's driver has resolved or rejected.
C15_SingleWriter ==
    \A k \in Clips : ~clip[k].lateDraw

\* Clip k is playing: play() resolved, neither paused nor ended, no error.
Playing(k) ==
    /\ clip[k].net = "loaded"
    /\ clip[k].playP = "resolved"
    /\ ~clip[k].paused
    /\ ~clip[k].ended

\* C16: while a clip plays and its driver is pending, a frame callback is
\* scheduled, also after the clip was paused and has resumed.
C16_CaptureWhilePlaying ==
    \A k \in Clips :
        (Playing(k) /\ clip[k].promise = "pending") => clip[k].raf

\* C17: once the recorder has stopped by itself during the run, the run
\* never returns a blob, and when the run comes to stop the recorder it is
\* rejected with an EncoderAbortedError.
C17_EncoderAborted ==
    /\ mediaRecorder.aborted => outcome.status # "blob"
    /\ (mediaRecorder.aborted /\ mediaRecorder.stops >= 1) =>
         /\ outcome.status = "rejected"
         /\ outcome.error.name = "EncoderAbortedError"

\* The numbers of the dataavailable events that carried data.
NonEmptyIds == {n \in 1 .. Len(emitted) : emitted[n].data # << >>}

\* C18: the buffer holds the data of the dataavailable events in arrival
\* order, and the blob of a successful run is the concatenation of all of
\* them: nothing the recorder emitted is missing, nothing is duplicated or
\* reordered, and data emitted during an earlier clip precedes data emitted
\* during a later one.
C18_OutputIsConcatenation ==
    /\ Len(chunks) = Cardinality(NonEmptyIds)
    /\ \A a \in 1 .. Len(chunks) :
         /\ chunks[a].id \in NonEmptyIds
         /\ chunks[a] = emitted[chunks[a].id]
         /\ \A b \in 1 .. Len(chunks) : a < b => chunks[a].id < chunks[b].id
    /\ outcome.status = "blob" =>
         LET d == outcome.blob.data IN
           /\ {d[a] : a \in 1 .. Len(d)} = NonEmptyIds
           /\ \A a, b \in 1 .. Len(d) :
                a < b => /\ d[a] < d[b]
                         /\ emitted[d[a]].clip <= emitted[d[b]].clip

C18_Witness ==
    /\ videos >= 2
    /\ outcome.status = "blob"
    /\ Len(outcome.blob.data) >= 2
    /\ emitted[1].clip < emitted[Len(emitted)].clip

\* drawFrame drew a frame of positive size.
DrewFrame ==
    /\ capture.ran
    /\ capture.called
    /\ capture.videoWidth > 0
    /\ capture.videoHeight > 0

\* The frame is wider, or taller, than the canvas (by aspect ratio).
Wider == capture.videoWidth * capture.height > capture.videoHeight * capture.width

Taller == capture.videoWidth * capture.height < capture.videoHeight * capture.width

Plus(p, q) == <<p[1] * q[2] + q[1] * p[2], p[2] * q[2]>>

\* The rectangle is scaled by min(W/vw, H/vh) on both axes, is centered and
\* lies within the canvas.
Letterboxed ==
    /\ Eq(capture.w, Mul(capture.videoWidth, capture.scale))
    /\ Eq(capture.h, Mul(capture.videoHeight, capture.scale))
    /\ Leq(capture.scale, Div(capture.width, capture.videoWidth))
    /\ Leq(capture.scale, Div(capture.height, capture.videoHeight))
    /\ \/ Eq(capture.scale, Div(capture.width, capture.videoWidth))
       \/ Eq(capture.scale, Div(capture.height, capture.videoHeight))
    /\ Eq(Plus(Plus(capture.x, capture.x), capture.w), Num(capture.width))
    /\ Eq(Plus(Plus(capture.y, capture.y), capture.h), Num(capture.height))
    /\ Leq(Num(0), capture.x)
    /\ Leq(Num(0), capture.y)
    /\ Leq(Plus(capture.x, capture.w), Num(capture.width))
    /\ Leq(Plus(capture.y, capture.h), Num(capture.height))

\* C19 as claimed: the rectangle is letterboxed, and for a frame wider than
\* the canvas the draw height is the canvas height, for a taller frame the
\* draw width is the canvas width.
C19_LetterboxAsClaimed ==
    DrewFrame =>
        /\ Letterboxed
        /\ Wider => Eq(capture.h, Num(capture.height))
        /\ Taller => Eq(capture.w, Num(capture.width))

\* C19 amended: the rectangle is letterboxed, and for a frame wider than
\* the canvas the draw width is the canvas width (the height is smaller
\* than the canvas height), for a taller frame the draw height is the
\* canvas height (the width is smaller than the canvas width).
C19_Letterbox ==
    DrewFrame =>
        /\ Letterboxed
        /\ Wider => /\ Eq(capture.w, Num(capture.width))
                    /\ ~Leq(Num(capture.height), capture.h)
        /\ Taller => /\ Eq(capture.h, Num(capture.height))
                     /\ ~Leq(Num(capture.width), capture.w)

C19_Witness ==
    /\ DrewFrame
    /\ Wider
    /\ capture.painted
    /\ capture.videoWidth = 4
    /\ capture.videoHeight = 1
    /\ capture.width = 2
    /\ capture.height = 3

\* C20: a frame callback that finds a frame of zero width or zero height
\* issues no drawImage call and schedules the next frame callback.
C20_ZeroFrameSkipped ==
    (/\ capture.ran
     /\ ~capture.paused
     /\ ~capture.ended
     /\ (capture.videoWidth = 0 \/ capture.videoHeight = 0)) =>
        /\ ~capture.called
        /\ capture.raf

\* C21: whenever the App renders the progress bar (appState PROCESSING), the
\* totalClips it divides by is positive, also before the first onProgress
\* call of a run and in a run started after a reset.
C21_NoDivisionByZero ==
    app.rendered.appState = "PROCESSING" => app.rendered.totalClips > 0

====
